---- MODULE Spec2Model ----
(***************************************************************************)
(* KiraAI message pipeline: the event bus (core/event_bus.py), the message *)
(* processor (core/message_manager.py) with its per-session buffer, its    *)
(* per-session send lock, its bounded agent loop and its semi-XML codec,   *)
(* and the chat memory (core/chat/memory_manager.py).                      *)
(*                                                                         *)
(* The program is one asyncio event loop: a task runs without interruption *)
(* from one suspension point to the next.  Every action below is one such  *)
(* uninterrupted stretch of one task.                                      *)
(***************************************************************************)
EXTENDS Integers, Sequences, FiniteSets, TLC

(***************************************************************************)
(* Bounds of the model and constants of the program.                       *)
(***************************************************************************)
BufferEvents == 4         \* events published in a run of SpecBuffer
SendEvents == 2           \* events published in a run of SpecSend
LoopEvents == 1           \* events published in a run of SpecLoop
TurnEvents == 2           \* events published in a run of Spec
FairEvents == 3           \* events published in a run of SpecBufferFair
LiveEvents == 2           \* events put on the queue in a run of SpecLive
Permits == 3              \* EventBus.message_processing_semaphore
MaxBufferMessages == 3    \* bot.max_buffer_messages
MaxMessageInterval == 1   \* bot.max_message_interval, in clock ticks
MaxToolLoop == 2          \* bot_config.agent.max_tool_loop
MaxMemoryLength == 2      \* bot.max_memory_length

Max(a, b) == IF a > b THEN a ELSE b
MaxEvents == Max(Max(Max(BufferEvents, SendEvents), Max(LoopEvents, TurnEvents)),
                 Max(FairEvents, LiveEvents))
Inv == 1..MaxEvents

\* A session key adapter:type:id, written as its three parts (sid.split(":"))
Session(adapter_name, session_type, session_id) == <<adapter_name, session_type, session_id>>
Sessions == {Session("qq", "gm", "1"), Session("qq", "dm", "2")}
NoSession == <<>>

(***************************************************************************)
(* The semi-XML texts.  A text is well formed or not; msgs is its sequence *)
(* of <msg> elements in document order, each with its message_id attribute *)
(* (<<>> when it has none) and its children (tag, stripped text).          *)
(***************************************************************************)
Child(t, v) == [tag |-> t, value |-> v]
Msg(c) == [message_id |-> <<>>, children |-> c]
Xml(w, m) == [wf |-> w, msgs |-> m]

MsgA == Msg(<<Child("text", "a")>>)
MsgB == Msg(<<Child("at", "7"), Child("text", "b")>>)
MsgBlank == Msg(<<Child("text", "")>>)
MsgEmpty == Msg(<<>>)

EmptyText == Xml(TRUE, <<>>)
TextA == Xml(TRUE, <<MsgA>>)
TextAB == Xml(TRUE, <<MsgA, MsgB>>)
TextBlankB == Xml(TRUE, <<MsgBlank, MsgB>>)
TextABlankB == Xml(TRUE, <<MsgA, MsgBlank, MsgB>>)
TextEmptyA == Xml(TRUE, <<MsgEmpty, MsgA>>)
BrokenA == Xml(FALSE, <<MsgA>>)
BrokenAB == Xml(FALSE, <<MsgA, MsgB>>)

\* ET.fromstring(f"<root>{xml_data}</root>") raises on a malformed text
ParseOk(x) == x.wf

\* one child of a <msg> as a MessageType element, <<>> when it yields none
Element(c) ==
    IF c.tag = "text" THEN (IF c.value # "" THEN <<[type |-> "Text", v |-> c.value]>> ELSE <<>>)
    ELSE IF c.tag = "at" THEN <<[type |-> "At", v |-> c.value]>>
    ELSE IF c.tag = "reply" THEN <<[type |-> "Reply", v |-> c.value]>>
    ELSE IF c.tag = "emoji" THEN <<[type |-> "Emoji", v |-> c.value]>>
    ELSE IF c.tag = "poke" THEN <<[type |-> "Poke", v |-> c.value]>>
    ELSE <<>>

RECURSIVE Elements(_)
Elements(cs) == IF cs = <<>> THEN <<>> ELSE Element(Head(cs)) \o Elements(Tail(cs))

\* _parse_xml_msg on a well-formed text: a <msg> without elements is left out
RECURSIVE MessageList(_)
MessageList(ms) ==
    IF ms = <<>> THEN <<>>
    ELSE LET message_elements == Elements(Head(ms).children)
         IN  (IF message_elements # <<>> THEN <<message_elements>> ELSE <<>>)
             \o MessageList(Tail(ms))

ParseXmlMsg(x) == MessageList(x.msgs)

\* Outcome of the corrective llm_api.chat call when it gives no text (it raised)
ChatFailed == [failed |-> TRUE]

\* _parse_and_generate_messages(x); y is what the corrective call gives, and it
\* is asked for only when the primary parse of x fails
ParseAndGenerateKeepsOriginal(x, y) ==
    IF ParseOk(x) THEN [message_list |-> ParseXmlMsg(x), actual_xml |-> x]
    ELSE IF y # ChatFailed /\ ParseOk(y)
         THEN [message_list |-> ParseXmlMsg(y), actual_xml |-> y]
    ELSE [message_list |-> <<<<[type |-> "Text", v |-> x]>>>>, actual_xml |-> x]

ParseAndGenerateReturnsOriginal(x, y) ==
    IF ParseOk(x) THEN [message_list |-> ParseXmlMsg(x), actual_xml |-> x]
    ELSE IF y = ChatFailed
         THEN [message_list |-> <<<<[type |-> "Text", v |-> x]>>>>, actual_xml |-> x]
    ELSE IF ParseOk(y) THEN [message_list |-> ParseXmlMsg(y), actual_xml |-> x]
    ELSE [message_list |-> <<<<[type |-> "Text", v |-> y]>>>>, actual_xml |-> y]

ParseAndGenerate(x, y) ==
    IF ParseOk(x) THEN [message_list |-> ParseXmlMsg(x), actual_xml |-> x]
    ELSE IF y = ChatFailed
         THEN [message_list |-> <<<<[type |-> "Text", v |-> x]>>>>, actual_xml |-> x]
    ELSE IF ParseOk(y) THEN [message_list |-> ParseXmlMsg(y), actual_xml |-> y]
    ELSE [message_list |-> <<<<[type |-> "Text", v |-> y]>>>>, actual_xml |-> y]

\* an exception leaving a function
Raised == [raised |-> TRUE]

\* Markup: a string of XML as the sequence of its tags and character data.
Open(tag, message_id) ==
    [k |-> "open", tag |-> tag, message_id |-> message_id, value |-> ""]
Close(tag) == [k |-> "close", tag |-> tag, message_id |-> <<>>, value |-> ""]
Empty(tag, message_id) ==
    [k |-> "empty", tag |-> tag, message_id |-> message_id, value |-> ""]
Chars(value) == [k |-> "chars", tag |-> "", message_id |-> <<>>, value |-> value]
\* what is left of a tag cut in the middle
Torn == [k |-> "torn", tag |-> "", message_id |-> <<>>, value |-> ""]

\* characters of a piece of markup: <tag>, </tag>, <tag />, and the attribute
\* message_id="..." when set
TagLength(tag) ==
    CASE tag = "root" -> 4 [] tag = "msg" -> 3 [] tag = "text" -> 4
      [] tag = "at" -> 2 [] OTHER -> 5
AttributeLength(message_id) == IF message_id = <<>> THEN 0 ELSE 17
Width(t) ==
    CASE t.k = "open" -> TagLength(t.tag) + 2 + AttributeLength(t.message_id)
      [] t.k = "close" -> TagLength(t.tag) + 3
      [] t.k = "empty" -> TagLength(t.tag) + 4 + AttributeLength(t.message_id)
      [] OTHER -> 1

RECURSIVE TotalWidth(_)
TotalWidth(markup) ==
    IF markup = <<>> THEN 0 ELSE Width(Head(markup)) + TotalWidth(Tail(markup))

\* ET.tostring of one child of a <msg>: an element without text is written
\* in the short form
ChildMarkup(c) ==
    IF c.value = "" THEN <<Empty(c.tag, <<>>)>>
    ELSE <<Open(c.tag, <<>>), Chars(c.value), Close(c.tag)>>

RECURSIVE ChildrenMarkup(_)
ChildrenMarkup(cs) ==
    IF cs = <<>> THEN <<>> ELSE ChildMarkup(Head(cs)) \o ChildrenMarkup(Tail(cs))

MsgMarkup(m) ==
    IF m.children = <<>> THEN <<Empty("msg", m.message_id)>>
    ELSE <<Open("msg", m.message_id)>> \o ChildrenMarkup(m.children) \o <<Close("msg")>>

RECURSIVE MsgsMarkup(_)
MsgsMarkup(ms) ==
    IF ms = <<>> THEN <<>> ELSE MsgMarkup(Head(ms)) \o MsgsMarkup(Tail(ms))

\* ET.tostring(root, encoding='unicode', method='xml')
tostring(msgs) ==
    IF msgs = <<>> THEN <<Empty("root", <<>>)>>
    ELSE <<Open("root", <<>>)>> \o MsgsMarkup(msgs) \o <<Close("root")>>

\* s[6:-6]
ChopOneShort(markup) ==
    IF TotalWidth(markup) <= 12 THEN <<>>
    ELSE IF Width(Head(markup)) = 6
    THEN SubSeq(markup, 2, Len(markup) - 1) \o <<Torn>>
    ELSE <<Torn>>

\* s[6:-7]: the string without its first 6 and its last 7 characters
Chop(markup) ==
    IF TotalWidth(markup) <= 13 THEN <<>>
    ELSE IF Width(Head(markup)) = 6 /\ Width(markup[Len(markup)]) = 7
    THEN SubSeq(markup, 2, Len(markup) - 1)
    ELSE <<Torn>>

\* reading markup back: the children of a <msg> up to its end tag
RECURSIVE ReadChildren(_)
ReadChildren(markup) ==
    IF markup = <<>> THEN [ok |-> FALSE, children |-> <<>>, rest |-> <<>>]
    ELSE LET t == Head(markup)
         IN  IF t.k = "close" /\ t.tag = "msg"
             THEN [ok |-> TRUE, children |-> <<>>, rest |-> Tail(markup)]
             ELSE IF t.k = "empty"
             THEN LET r == ReadChildren(Tail(markup))
                  IN  [r EXCEPT !.children = <<Child(t.tag, "")>> \o @]
             ELSE IF /\ t.k = "open" /\ Len(markup) >= 3
                     /\ markup[2].k = "chars"
                     /\ markup[3].k = "close" /\ markup[3].tag = t.tag
             THEN LET r == ReadChildren(SubSeq(markup, 4, Len(markup)))
                  IN  [r EXCEPT !.children = <<Child(t.tag, markup[2].value)>> \o @]
             ELSE [ok |-> FALSE, children |-> <<>>, rest |-> <<>>]

\* the text a piece of markup is: well-formed or not under a root, and its
\* <msg> elements
RECURSIVE ReadMsgs(_)
ReadMsgs(markup) ==
    IF markup = <<>> THEN Xml(TRUE, <<>>)
    ELSE LET t == Head(markup)
         IN  IF t.k = "empty" /\ t.tag = "msg"
             THEN LET r == ReadMsgs(Tail(markup))
                  IN  Xml(r.wf, <<[message_id |-> t.message_id, children |-> <<>>]>>
                                \o r.msgs)
             ELSE IF t.k = "open" /\ t.tag = "msg"
             THEN LET c == ReadChildren(Tail(markup))
                      r == ReadMsgs(c.rest)
                  IN  IF c.ok
                      THEN Xml(r.wf, <<[message_id |-> t.message_id,
                                        children |-> c.children]>> \o r.msgs)
                      ELSE Xml(FALSE, <<>>)
             ELSE Xml(FALSE, <<>>)

\* lines 404-406: msg.set("message_id", message_ids[i]) for the i-th <msg>
SetMessageIds(msgs, message_ids) ==
    [k \in 1..Len(msgs) |->
        IF k <= Len(message_ids)
        THEN [msgs[k] EXCEPT !.message_id = <<message_ids[k]>>]
        ELSE msgs[k]]

AddMessageIdsUnguarded(x, message_ids) ==
    IF ~ParseOk(x) THEN Raised
    ELSE ReadMsgs(Chop(tostring(SetMessageIds(x.msgs, message_ids))))

\* _add_message_ids: the i-th <msg> gets message_ids[i] and the tree is
\* written out again; a text that does not parse comes back as it is
AddMessageIds(x, message_ids) ==
    IF ~ParseOk(x) THEN x
    ELSE ReadMsgs(Chop(tostring(SetMessageIds(x.msgs, message_ids))))

(***************************************************************************)
(* State.                                                                  *)
(***************************************************************************)
VARIABLES
    event_queue,      \* EventBus.event_queue: the events put and not yet taken
    sess,             \* sess[i]: the session key of event i, NoSession before it is published
    pc,               \* pc[i]: where the task of event i stands
    permits,          \* value of the admission semaphore
    message_buffer,   \* message_buffer[sid]: the pending events
    msg_amount,       \* msg_amount[i]: the local of handle_im_message
    timer,            \* timer[i]: ticks left of asyncio.sleep(max_message_interval)
    session_locks,    \* session_locks[key]: the task holding the lock, 0 when free
    buffer_locks,     \* buffer_locks[key]: the task holding the lock, 0 when free
    reply,            \* reply[i]: the text a task waits to send
    hasTools,         \* hasTools[i]: the response being handled carries tool calls
    calls,            \* calls[i]: agent_run calls of the turn so far
    todo,             \* todo[i]: messages of resp_list still to send
    sent,             \* sent[i]: adapter sends of the current batch that returned
    chunk,            \* chunk[i]: new_memory_chunk
    chat_memory,      \* chat_memory[sid]: the chunks, each named by its turn
    appended,         \* appended[i]: update_memory calls of the turn
    adapters,         \* runtime._adapters: the registered adapter names
    enq,              \* history: events appended to each buffer, in order
    flushed,          \* history: the batches taken from each buffer, in order
    burst,            \* history: every two consecutive appends were less than the interval apart
    lastSend,         \* history: the task of the latest adapter send to each session
    cpc,              \* one send_xml_messages call in detail: where it stands
    xml_data,              \* its argument
    fixed,            \* what the corrective call gave, NotAsked before
    actual_xml,       \* the text _parse_and_generate_messages returned
    resp_list,        \* the batch it returned
    message_ids,      \* the ids collected so far
    sendLog,          \* history: the adapter sends, each with the id it returned
    delays,           \* history: pacing sleeps so far
    response_with_ids, \* what _add_message_ids returned
    repairs,          \* history: the texts given to the corrective llm_api.chat call
    sinceLast,        \* history: ticks since the last append, counted up to the interval + 1
    session_memory,   \* one session's chunk list in MemoryManager.chat_memory
    memoryBefore,     \* history: the list before the latest update_memory
    last_chunk,       \* history: the chunk of the latest update_memory, 0 before
    updates,          \* history: update_memory calls so far
    max_tool_loop,    \* the configured bot_config.agent.max_tool_loop
    tpc,              \* one turn from line 196 on: where it stands
    max_agent_steps,  \* the local of handle_im_message
    steps,            \* loop steps of that turn so far
    tool_calls,       \* the tool calls of one response of OpenAIProvider.chat
    tool_index,       \* tool calls gone through so far
    tool_messages,    \* the local of OpenAIProvider.chat
    tool_results,     \* llm_resp.tool_results
    xpc,              \* the tool loop of that response: where it stands
    app,              \* TelegramAdapter.app is set
    sender_semaphore, \* value of MessageSender.semaphore
    spc,              \* spc[s]: where send_group_message call s stands
    attempt,          \* attempt[s]: the loop variable of send_with_retry
    send_calls,       \* history: calls of send_func made for call s
    escaped,          \* history: an exception left send_with_retry of call s
    send_result       \* send_result[s]: what send_group_message gave

vars == <<event_queue, sess, pc, permits, message_buffer, msg_amount, timer,
          session_locks, reply, hasTools, calls, todo, chunk, chat_memory,
          appended, adapters, enq, flushed, burst, sinceLast, sent, lastSend,
          buffer_locks>>

codecVars == <<cpc, xml_data, fixed, actual_xml, resp_list, message_ids, sendLog, delays,
               response_with_ids, repairs>>

unitVars == <<session_memory, memoryBefore, last_chunk, updates, max_tool_loop, tpc,
              max_agent_steps, steps>>

toolVars == <<tool_calls, tool_index, tool_messages, tool_results, xpc>>

retryVars == <<app, sender_semaphore, spc, attempt, send_calls, escaped, send_result>>

allVars == <<vars, codecVars, unitVars, toolVars, retryVars>>

State == [pc |-> pc, permits |-> permits, message_buffer |-> message_buffer,
          msg_amount |-> msg_amount, timer |-> timer, session_locks |-> session_locks,
          reply |-> reply, hasTools |-> hasTools, calls |-> calls, todo |-> todo,
          chunk |-> chunk, chat_memory |-> chat_memory,
          appended |-> appended, enq |-> enq, flushed |-> flushed, burst |-> burst,
          sinceLast |-> sinceLast, sent |-> sent, lastSend |-> lastSend,
          buffer_locks |-> buffer_locks]

Becomes(st) ==
    /\ pc' = st.pc
    /\ permits' = st.permits
    /\ message_buffer' = st.message_buffer
    /\ msg_amount' = st.msg_amount
    /\ timer' = st.timer
    /\ session_locks' = st.session_locks
    /\ reply' = st.reply
    /\ hasTools' = st.hasTools
    /\ calls' = st.calls
    /\ todo' = st.todo
    /\ chunk' = st.chunk
    /\ chat_memory' = st.chat_memory
    /\ appended' = st.appended
    /\ enq' = st.enq
    /\ flushed' = st.flushed
    /\ burst' = st.burst
    /\ sinceLast' = st.sinceLast
    /\ sent' = st.sent
    /\ lastSend' = st.lastSend
    /\ buffer_locks' = st.buffer_locks

NotAsked == [asked |-> FALSE]

InitPipeline ==
    /\ event_queue = <<>>
    /\ sess = [i \in Inv |-> NoSession]
    /\ pc = [i \in Inv |-> "new"]
    /\ permits = Permits
    /\ message_buffer = [s \in Sessions |-> <<>>]
    /\ msg_amount = [i \in Inv |-> 0]
    /\ timer = [i \in Inv |-> 0]
    /\ session_locks = [s \in Sessions |-> 0]
    /\ buffer_locks = [s \in Sessions |-> 0]
    /\ reply = [i \in Inv |-> EmptyText]
    /\ hasTools = [i \in Inv |-> FALSE]
    /\ calls = [i \in Inv |-> 0]
    /\ todo = [i \in Inv |-> 0]
    /\ chunk = [i \in Inv |-> <<>>]
    /\ chat_memory = [s \in Sessions |-> <<>>]
    /\ appended = [i \in Inv |-> 0]
    /\ adapters = {"qq"}
    /\ enq = [s \in Sessions |-> <<>>]
    /\ flushed = [s \in Sessions |-> <<>>]
    /\ burst = [s \in Sessions |-> TRUE]
    /\ sinceLast = [s \in Sessions |-> 0]
    /\ sent = [i \in Inv |-> 0]
    /\ lastSend = [s \in Sessions |-> 0]

\* no send_xml_messages call is followed in detail
IdleCodec ==
    /\ cpc = "idle"
    /\ xml_data = EmptyText
    /\ fixed = NotAsked
    /\ actual_xml = EmptyText
    /\ resp_list = <<>>
    /\ message_ids = <<>>
    /\ sendLog = <<>>
    /\ delays = 0
    /\ response_with_ids = EmptyText
    /\ repairs = <<>>

None == [type |-> "NoneType"]

\* no chunk list and no configuration value is followed in detail
IdleUnits ==
    /\ session_memory = <<>>
    /\ memoryBefore = <<>>
    /\ last_chunk = 0
    /\ updates = 0
    /\ max_tool_loop = None
    /\ tpc = "idle"
    /\ max_agent_steps = 0
    /\ steps = 0

MaxConcurrent == 3   \* MessageSender.__init__: max_concurrent
MaxRetries == 3      \* MessageSender.__init__: max_retries
NumSenders == 4      \* send_group_message calls followed
Senders == 1..NumSenders

IdleTools ==
    /\ tool_calls = <<>>
    /\ tool_index = 0
    /\ tool_messages = <<>>
    /\ tool_results = <<>>
    /\ xpc = "idle"

\* what a call gives: a value (the empty string for None), or an exception
SendGave(v) == [raised |-> FALSE, v |-> v]
SendRaised == [raised |-> TRUE, v |-> ""]

IdleRetry ==
    /\ app = FALSE
    /\ sender_semaphore = MaxConcurrent
    /\ spc = [s \in Senders |-> "idle"]
    /\ attempt = [s \in Senders |-> 0]
    /\ send_calls = [s \in Senders |-> 0]
    /\ escaped = [s \in Senders |-> FALSE]
    /\ send_result = [s \in Senders |-> SendGave("")]

Init == InitPipeline /\ IdleCodec /\ IdleUnits /\ IdleTools /\ IdleRetry

(***************************************************************************)
(* The steps of handle_im_message, as functions from state to state.  st   *)
(* is the state reached so far within the running stretch of task i.       *)
(***************************************************************************)
get_buffer_lock(sid) == sid
get_session_lock(sid) == sid

ExitKeepsPermit(st, i, how) == [st EXCEPT !.pc[i] = how]

\* leaving _dispatch_event: the admission permit goes back
Exit(st, i, how) == [st EXCEPT !.pc[i] = how, !.permits = @ + 1]

UpdateMemoryEvictsNewest(memory, new_chunk) ==
    LET m == Append(memory, new_chunk)
    IN  IF Len(m) > MaxMemoryLength THEN SubSeq(m, 1, Len(m) - 1) ELSE m

\* MemoryManager.update_memory on one session's chunk list
update_memory(memory, new_chunk) ==
    LET m == Append(memory, new_chunk)
    IN  IF Len(m) > MaxMemoryLength THEN Tail(m) ELSE m

\* line 233 and the return of the task
Commit(st, i) ==
    Exit([st EXCEPT !.chat_memory[sess[i]] = update_memory(@, i),
                    !.appended[i] = @ + 1], i, "done")

Assistant == [role |-> "assistant", content |-> <<>>]
ToolResult == [role |-> "tool", content |-> <<>>]

MaxAgentStepsOneMore == MaxToolLoop + 2

MaxAgentSteps == MaxToolLoop + 1

\* the head of `for _ in range(max_agent_steps)`: the next agent_run call, or line 233
AgentStep(st, i) ==
    IF st.calls[i] < MaxAgentSteps
    THEN [st EXCEPT !.pc[i] = "llm", !.calls[i] = @ + 1]
    ELSE Commit(st, i)

RaiseKeepsSessionLock(st, i) == Exit(st, i, "failed")

\* a block that would not give the session lock back
KeepSessionLock(st, i) == st

\* the `async with session_lock:` block is left
ReleaseSessionLock(st, i) ==
    [st EXCEPT !.session_locks[get_session_lock(sess[i])] = 0]

\* an exception leaves send_xml_messages, the session lock block and the task
Raise(st, i) == Exit(ReleaseSessionLock(st, i), i, "failed")

\* tools that would start inside the session lock block
AfterSendKeepsLock(st, i) ==
    IF st.hasTools[i]
    THEN [st EXCEPT !.pc[i] = "tool"]
    ELSE Commit([ReleaseSessionLock(st, i) EXCEPT !.chunk[i] = Append(@, Assistant)], i)

\* send_xml_messages has returned: lines 211-215 or 221-223
AfterSend(st, i) ==
    LET r == ReleaseSessionLock(st, i)
    IN  IF r.hasTools[i]
        THEN [r EXCEPT !.pc[i] = "tool"]
        ELSE Commit([r EXCEPT !.chunk[i] = Append(@, Assistant)], i)

\* the head of `for message_list in resp_list`: the next adapter send
SendLoop(st, i) ==
    IF st.todo[i] = 0 THEN AfterSend(st, i)
    ELSE IF sess[i][1] \in adapters THEN [st EXCEPT !.pc[i] = "send"]
    ELSE Raise(st, i)

\* send_xml_messages once resp_list is known
SendBatch(st, i, batch) ==
    SendLoop([st EXCEPT !.todo[i] = Len(batch), !.sent[i] = 0,
                        !.reply[i] = EmptyText], i)

\* send_xml_messages from its start, the session lock held
send_xml_messages(st, i, xml) ==
    IF ParseOk(xml)
    THEN SendBatch(st, i, ParseAndGenerate(xml, ChatFailed).message_list)
    ELSE [st EXCEPT !.pc[i] = "repair", !.reply[i] = xml]

SessionLockAlwaysFree(st, i) == TRUE

SessionLockFree(st, i) == st.session_locks[get_session_lock(sess[i])] = 0

WithoutSessionLock(st, i, xml) == send_xml_messages(st, i, xml)

\* `async with session_lock:` around send_xml_messages
WithSessionLock(st, i, xml) ==
    IF SessionLockFree(st, i)
    THEN send_xml_messages(
             [st EXCEPT !.session_locks[get_session_lock(sess[i])] = i], i, xml)
    ELSE [st EXCEPT !.pc[i] = "lock", !.reply[i] = xml]

\* What agent_run gives: nothing, or a response with or without tool calls
NoResponse == [none |-> TRUE]
ReplyTexts == {EmptyText, TextA, TextAB, BrokenA}
Responses == {NoResponse} \cup [tool_calls : BOOLEAN, text_response : ReplyTexts]

\* a turn that would call the model again
OnNoResponseGoesOn(st, i) ==
    AgentStep([st EXCEPT !.chunk[i] = Append(@, Assistant)], i)

\* lines 228-233: no response object
OnNoResponse(st, i) ==
    Commit([st EXCEPT !.chunk[i] = Append(@, Assistant)], i)

\* lines 206-231 for the response r of one agent_run call
OnResponse(st, i, r) ==
    IF r = NoResponse
    THEN OnNoResponse(st, i)
    ELSE IF ~r.tool_calls
    THEN WithSessionLock([st EXCEPT !.hasTools[i] = FALSE], i, r.text_response)
    ELSE IF r.text_response # EmptyText
    THEN WithSessionLock([st EXCEPT !.hasTools[i] = TRUE], i, r.text_response)
    ELSE [st EXCEPT !.hasTools[i] = TRUE, !.pc[i] = "tool"]

\* a list slice of Python: list[lo:hi] with 0 <= lo, indices past the end allowed
Slice(list, lo, hi) ==
    SubSeq(list, (IF lo < Len(list) THEN lo ELSE Len(list)) + 1,
                 IF hi < Len(list) THEN hi ELSE Len(list))

TakeBatchKeepsLast(buffer, n) ==
    [message_processing |-> Slice(buffer, 0, n),
     rest |-> Slice(buffer, n - 1, Len(buffer))]

\* a slice that would take the invocation's own event alone
TakeBatchOnlyOwn(buffer, n) ==
    [message_processing |-> Slice(buffer, n - 1, n),
     rest |-> Slice(buffer, 0, n - 1)]

\* lines 144-145: slice and clear
TakeBatch(buffer, n) ==
    [message_processing |-> Slice(buffer, 0, n),
     rest |-> Slice(buffer, n, Len(buffer))]

RunTurnCommitsFirst(st, i, message_processing) ==
    AgentStep([st EXCEPT !.chunk[i] =
                   <<[role |-> "user", content |-> message_processing]>>,
                         !.chat_memory[sess[i]] = update_memory(@, i),
                         !.appended[i] = @ + 1], i)

\* lines 151-204: the turn on the batch it took
RunTurn(st, i, message_processing) ==
    AgentStep([st EXCEPT !.chunk[i] =
                   <<[role |-> "user", content |-> message_processing]>>], i)

LengthNotCompared(buffer, n) == TRUE

\* line 141: no message came while the task slept
LengthUnchanged(buffer, n) == Len(buffer) = n

\* `async with buffer_lock:` is entered; the lock is free whenever a task
\* runs, as no task is suspended inside the block
AcquireBufferLock(st, i) ==
    [st EXCEPT !.buffer_locks[get_buffer_lock(sess[i])] = i]

\* a block that would not give the lock back
KeepBufferLock(st, i) == st

\* the block is left
ReleaseBufferLock(st, i) ==
    [st EXCEPT !.buffer_locks[get_buffer_lock(sess[i])] = 0]

\* lines 141-149
CheckBuffer(st, i) ==
    LET sid == sess[i]
        buffer == st.message_buffer[sid]
        t == TakeBatch(buffer, st.msg_amount[i])
    IN  IF LengthUnchanged(buffer, st.msg_amount[i])
        THEN RunTurn(ReleaseBufferLock(
                         [AcquireBufferLock(st, i) EXCEPT
                              !.message_buffer[sid] = t.rest,
                              !.flushed[sid] = Append(@, [by |-> i,
                                                batch |-> t.message_processing,
                                                compared_under |-> st.buffer_locks[sid],
                                                sliced_under |-> i,
                                                left |-> Len(t.rest)])], i),
                     i, t.message_processing)
        ELSE Exit(st, i, "aborted")

\* a test that would let every invocation wait
AlwaysBelowCap(n) == TRUE

\* line 139: msg_amount < self.max_buffer_messages
BelowCap(n) == n < MaxBufferMessages

\* lines 133-140
Enqueue(st, i) ==
    LET sid == sess[i]
        buffer == Append(st.message_buffer[sid], i)
        st1 == ReleaseBufferLock(
                   [AcquireBufferLock(st, i) EXCEPT
                       !.message_buffer[sid] = buffer,
                       !.msg_amount[i] = Len(buffer),
                       !.enq[sid] = Append(@, i),
                       !.burst[sid] = IF st.enq[sid] = <<>> THEN TRUE
                                      ELSE @ /\ st.sinceLast[sid] < MaxMessageInterval,
                       !.sinceLast[sid] = 0], i)
    IN  IF BelowCap(Len(buffer))
        THEN [st1 EXCEPT !.pc[i] = "sleep", !.timer[i] = MaxMessageInterval]
        ELSE CheckBuffer(st1, i)

(***************************************************************************)
(* Actions.                                                                *)
(***************************************************************************)
\* an adapter puts the next event on the queue (IMAdapter.publish)
Publish(sid, n) ==
    /\ sid[1] \in adapters
    /\ \E i \in 1..n :
        /\ pc[i] = "new"
        /\ \A j \in Inv : j < i => pc[j] # "new"
        /\ pc' = [pc EXCEPT ![i] = "queued"]
        /\ sess' = [sess EXCEPT ![i] = sid]
        /\ event_queue' = Append(event_queue, i)
    /\ UNCHANGED <<permits, message_buffer, msg_amount, timer, session_locks, buffer_locks, reply,
                   hasTools, calls, todo, chunk, chat_memory, appended,
                   adapters, enq, flushed, burst, sinceLast, sent, lastSend, codecVars, unitVars, toolVars, retryVars>>

\* EventBus.dispatch: take an event, create the task of _dispatch_event
Dispatch ==
    /\ event_queue # <<>>
    /\ pc' = [pc EXCEPT ![Head(event_queue)] = "sem"]
    /\ event_queue' = Tail(event_queue)
    /\ UNCHANGED <<sess, permits, message_buffer, msg_amount, timer, session_locks, buffer_locks,
                   reply, hasTools, calls, todo, chunk, chat_memory, appended,
                   adapters, enq, flushed, burst, sinceLast, sent, lastSend, codecVars, unitVars, toolVars, retryVars>>

SemaphoreAlwaysFree(value) == TRUE

\* asyncio.Semaphore: a permit can be taken
SemaphoreFree(value) == value > 0

\* the task gets its admission permit and runs to its first suspension
Admit(i) ==
    /\ pc[i] = "sem"
    /\ SemaphoreFree(permits)
    /\ Becomes(Enqueue([State EXCEPT !.permits = @ - 1], i))
    /\ UNCHANGED <<event_queue, sess, adapters, codecVars, unitVars, toolVars, retryVars>>

\* the sleeps of one length end in the order they began (the loop's timer heap):
\* no task of the session that went to sleep before task i still sleeps
FirstSleeper(i) ==
    \A j \in Inv :
        (pc[j] = "sleep" /\ sess[j] = sess[i]) =>
            \A a, b \in 1..Len(enq[sess[i]]) :
                (enq[sess[i]][a] = j /\ enq[sess[i]][b] = i) => b <= a

\* asyncio.sleep(max_message_interval) is over
Wake(i) ==
    /\ pc[i] = "sleep"
    /\ timer[i] = 0
    /\ FirstSleeper(i)
    /\ Becomes(CheckBuffer(State, i))
    /\ UNCHANGED <<event_queue, sess, adapters, codecVars, unitVars, toolVars, retryVars>>

\* agent_run returns
LLMReturn(i, r) ==
    /\ pc[i] = "llm"
    /\ Becomes(OnResponse(State, i, r))
    /\ UNCHANGED <<event_queue, sess, adapters, codecVars, unitVars, toolVars, retryVars>>

\* a task waiting for the session lock gets it
LockAcquired(i) ==
    /\ pc[i] = "lock"
    /\ SessionLockFree(State, i)
    /\ Becomes(WithSessionLock(State, i, reply[i]))
    /\ UNCHANGED <<event_queue, sess, adapters, codecVars, unitVars, toolVars, retryVars>>

\* the corrective llm_api.chat call returns y
RepairReturn(i, y) ==
    /\ pc[i] = "repair"
    /\ Becomes(SendBatch(State, i, ParseAndGenerate(reply[i], y).message_list))
    /\ UNCHANGED <<event_queue, sess, adapters, codecVars, unitVars, toolVars, retryVars>>

\* the adapter's send returns (an id or None): lines 284-295
SendReturn(i) ==
    /\ pc[i] = "send"
    /\ Becomes([State EXCEPT !.pc[i] = "pace", !.todo[i] = @ - 1,
                              !.sent[i] = @ + 1, !.lastSend[sess[i]] = i])
    /\ UNCHANGED <<event_queue, sess, adapters, codecVars, unitVars, toolVars, retryVars>>

\* the pacing sleep of line 295 is over
PaceDone(i) ==
    /\ pc[i] = "pace"
    /\ Becomes(SendLoop(State, i))
    /\ UNCHANGED <<event_queue, sess, adapters, codecVars, unitVars, toolVars, retryVars>>

\* execute_tool returns: lines 224-227 and the next loop step
ToolReturn(i) ==
    /\ pc[i] = "tool"
    /\ Becomes(AgentStep([State EXCEPT !.chunk[i] = @ \o <<Assistant, ToolResult>>], i))
    /\ UNCHANGED <<event_queue, sess, adapters, codecVars, unitVars, toolVars, retryVars>>

\* AdapterManager.stop_adapter: the adapter leaves the registry
StopAdapter(name) ==
    /\ name \in adapters
    /\ adapters' = adapters \ {name}
    /\ UNCHANGED <<event_queue, sess, pc, permits, message_buffer, msg_amount, timer,
                   session_locks, buffer_locks, reply, hasTools, calls, todo, chunk,
                   chat_memory, appended, enq, flushed, burst, sinceLast, sent, lastSend,
                   codecVars, unitVars, toolVars, retryVars>>

\* one clock tick; a sleep that is over ends before the clock moves on
Tick ==
    /\ \A i \in Inv : pc[i] = "sleep" => timer[i] > 0
    /\ \/ \E i \in Inv : pc[i] = "sleep"
       \/ \E s \in Sessions : enq[s] # <<>> /\ sinceLast[s] <= MaxMessageInterval
    /\ timer' = [i \in Inv |-> IF pc[i] = "sleep" THEN timer[i] - 1 ELSE timer[i]]
    /\ sinceLast' = [s \in Sessions |->
                        IF enq[s] # <<>> /\ sinceLast[s] <= MaxMessageInterval
                        THEN sinceLast[s] + 1 ELSE sinceLast[s]]
    /\ UNCHANGED <<event_queue, sess, pc, permits, message_buffer, msg_amount,
                   session_locks, buffer_locks, reply, hasTools, calls, todo, chunk,
                   chat_memory, appended, adapters, enq, flushed, burst, sent,
                   lastSend, codecVars, unitVars, toolVars, retryVars>>

RepairOutcomes == {ChatFailed, EmptyText, TextA, BrokenA}

Next ==
    \/ \E sid \in Sessions : Publish(sid, TurnEvents)
    \/ Dispatch
    \/ \E i \in Inv : Admit(i)
    \/ \E i \in Inv : Wake(i)
    \/ \E i \in Inv, r \in Responses : LLMReturn(i, r)
    \/ \E i \in Inv : LockAcquired(i)
    \/ \E i \in Inv, y \in RepairOutcomes : RepairReturn(i, y)
    \/ \E i \in Inv : SendReturn(i)
    \/ \E i \in Inv : PaceDone(i)
    \/ \E i \in Inv : ToolReturn(i)
    \/ \E name \in {"qq"} : StopAdapter(name)
    \/ Tick

Spec == Init /\ [][Next]_allVars

\* Replies without tool calls, no adapter stopped
FinalResponses == {NoResponse} \cup [tool_calls : {FALSE}, text_response : ReplyTexts]

NextSend ==
    \/ \E sid \in Sessions : Publish(sid, SendEvents)
    \/ Dispatch
    \/ \E i \in Inv : Admit(i)
    \/ \E i \in Inv : Wake(i)
    \/ \E i \in Inv, r \in FinalResponses : LLMReturn(i, r)
    \/ \E i \in Inv : LockAcquired(i)
    \/ \E i \in Inv, y \in RepairOutcomes : RepairReturn(i, y)
    \/ \E i \in Inv : SendReturn(i)
    \/ \E i \in Inv : PaceDone(i)
    \/ Tick

SpecSend == Init /\ [][NextSend]_allVars

\* One turn alone
NextLoop ==
    \/ \E sid \in Sessions : Publish(sid, LoopEvents)
    \/ Dispatch
    \/ \E i \in Inv : Admit(i)
    \/ \E i \in Inv : Wake(i)
    \/ \E i \in Inv, r \in Responses : LLMReturn(i, r)
    \/ \E i \in Inv, y \in RepairOutcomes : RepairReturn(i, y)
    \/ \E i \in Inv : SendReturn(i)
    \/ \E i \in Inv : PaceDone(i)
    \/ \E i \in Inv : ToolReturn(i)
    \/ \E name \in {"qq"} : StopAdapter(name)
    \/ Tick

SpecLoop == Init /\ [][NextLoop]_allVars

\* The buffer and the admission under more events, every agent_run call failing
NextBuffer ==
    \/ \E sid \in Sessions : Publish(sid, BufferEvents)
    \/ Dispatch
    \/ \E i \in Inv : Admit(i)
    \/ \E i \in Inv : Wake(i)
    \/ \E i \in Inv : LLMReturn(i, NoResponse)
    \/ Tick

SpecBuffer == Init /\ [][NextBuffer]_allVars

\* The buffer when events stop arriving: time passes, sleeps end, tasks are
\* scheduled and the agent_run calls return
NextBufferFair ==
    \/ \E sid \in Sessions : Publish(sid, FairEvents)
    \/ Dispatch
    \/ \E i \in Inv : Admit(i)
    \/ \E i \in Inv : Wake(i)
    \/ \E i \in Inv : LLMReturn(i, NoResponse)
    \/ Tick

ProgressBuffer ==
    \/ Dispatch
    \/ \E i \in Inv : Admit(i)
    \/ \E i \in Inv : Wake(i)
    \/ \E i \in Inv : LLMReturn(i, NoResponse)
    \/ Tick

\* as long as a step of the dispatch loop, of a task or of the clock is
\* possible, one is taken
FairnessBuffer == WF_allVars(ProgressBuffer)

SpecBufferFair == Init /\ [][NextBufferFair]_allVars /\ FairnessBuffer

\* SendMessageTool.execute, run by execute_tool for task i: an event for the
\* session sid is put on the queue
ToolPut(i, sid, n) ==
    /\ pc[i] = "tool"
    /\ sid[1] \in adapters
    /\ \E j \in 1..n :
        /\ pc[j] = "new"
        /\ \A k \in Inv : k < j => pc[k] # "new"
        /\ pc' = [pc EXCEPT ![j] = "queued"]
        /\ sess' = [sess EXCEPT ![j] = sid]
        /\ event_queue' = Append(event_queue, j)
    /\ UNCHANGED <<permits, message_buffer, msg_amount, timer, session_locks, buffer_locks, reply,
                   hasTools, calls, todo, chunk, chat_memory, appended,
                   adapters, enq, flushed, burst, sinceLast, sent, lastSend, codecVars, unitVars,
                   toolVars, retryVars>>

\* Turns of several sessions with tools that put events back on the queue;
\* every created task is scheduled, time passes, and every model call, tool
\* and send returns
LiveResponses ==
    {NoResponse,
     [tool_calls |-> TRUE, text_response |-> TextA],
     [tool_calls |-> FALSE, text_response |-> TextA],
     [tool_calls |-> FALSE, text_response |-> BrokenA]}

LiveRepairOutcomes == {ChatFailed, TextA}

Progress ==
    \/ Dispatch
    \/ \E i \in Inv : Admit(i)
    \/ \E i \in Inv : Wake(i)
    \/ \E i \in Inv, r \in LiveResponses : LLMReturn(i, r)
    \/ \E i \in Inv : LockAcquired(i)
    \/ \E i \in Inv, y \in LiveRepairOutcomes : RepairReturn(i, y)
    \/ \E i \in Inv : SendReturn(i)
    \/ \E i \in Inv : PaceDone(i)
    \/ \E i \in Inv : ToolReturn(i)
    \/ Tick

NextLive ==
    \/ \E sid \in Sessions : Publish(sid, LiveEvents)
    \/ \E i \in Inv, sid \in Sessions : ToolPut(i, sid, LiveEvents)
    \/ Progress

\* as long as a step of the dispatch loop, of a task or of the clock is
\* possible, one is taken
FairnessLive == WF_allVars(Progress)

SpecLive == Init /\ [][NextLive]_allVars /\ FairnessLive

(***************************************************************************)
(* One call of send_xml_messages followed by _add_message_ids (lines 210   *)
(* and 211), with the texts, the batch and the ids in full.                *)
(***************************************************************************)
CodecTexts ==
    {EmptyText, TextA, TextAB, TextBlankB, TextABlankB, TextEmptyA, BrokenA, BrokenAB}
CodecRepairOutcomes ==
    {ChatFailed, EmptyText, TextA, TextAB, TextBlankB, BrokenA, BrokenAB}

\* the ids the adapter gives to its sends, in order
MessageId(k) == <<"id1", "id2", "id3">>[k]

InitCodec ==
    /\ InitPipeline
    /\ IdleUnits
    /\ IdleTools
    /\ IdleRetry
    /\ cpc = "start"
    /\ xml_data \in CodecTexts
    /\ fixed = NotAsked
    /\ actual_xml = EmptyText
    /\ resp_list = <<>>
    /\ message_ids = <<>>
    /\ sendLog = <<>>
    /\ delays = 0
    /\ response_with_ids = EmptyText
    /\ repairs = <<>>

\* lines 279-299 from the head of the loop, then line 211
CodecSendLoop(list, text, ids) ==
    IF Len(ids) < Len(list)
    THEN cpc' = "send" /\ UNCHANGED response_with_ids
    ELSE cpc' = "done" /\ response_with_ids' = AddMessageIds(text, ids)

\* a function that would ask for a correction of every text
AlwaysFails(x) == TRUE

\* lines 376-379: the primary _parse_xml_msg raises
PrimaryParseFails(x) == ~ParseOk(x)

\* send_xml_messages is called: the primary parse and, when it fails, the
\* corrective call on xml_data
CodecParse ==
    /\ cpc = "start"
    /\ IF ~PrimaryParseFails(xml_data)
       THEN LET r == ParseAndGenerate(xml_data, ChatFailed)
            IN  /\ resp_list' = r.message_list
                /\ actual_xml' = r.actual_xml
                /\ CodecSendLoop(r.message_list, r.actual_xml, <<>>)
                /\ UNCHANGED repairs
       ELSE /\ cpc' = "repair"
            /\ repairs' = Append(repairs, xml_data)
            /\ UNCHANGED <<resp_list, actual_xml, response_with_ids>>
    /\ UNCHANGED <<vars, unitVars, toolVars, retryVars, xml_data, fixed, message_ids, sendLog, delays>>

\* the corrective call returns y
CodecRepair(y) ==
    /\ cpc = "repair"
    /\ fixed' = y
    /\ LET r == ParseAndGenerate(xml_data, y)
       IN  /\ resp_list' = r.message_list
           /\ actual_xml' = r.actual_xml
           /\ CodecSendLoop(r.message_list, r.actual_xml, <<>>)
    /\ UNCHANGED <<vars, unitVars, toolVars, retryVars, xml_data, message_ids, sendLog, delays, repairs>>

\* the adapter's send of the next message returns: an id, or None on failure
CodecSend(ok) ==
    /\ cpc = "send"
    /\ LET message_list == resp_list[Len(message_ids) + 1]
           message_id == IF ok THEN MessageId(Len(sendLog) + 1) ELSE ""
       IN  /\ message_ids' = Append(message_ids, message_id)
           /\ sendLog' = Append(sendLog, [message |-> message_list, id |-> message_id])
    /\ cpc' = "pace"
    /\ UNCHANGED <<vars, unitVars, toolVars, retryVars, xml_data, fixed, actual_xml, resp_list, delays,
                   response_with_ids, repairs>>

\* the pacing sleep of line 295 is over
CodecPace ==
    /\ cpc = "pace"
    /\ delays' = delays + 1
    /\ CodecSendLoop(resp_list, actual_xml, message_ids)
    /\ UNCHANGED <<vars, unitVars, toolVars, retryVars, xml_data, fixed, actual_xml, resp_list, message_ids,
                   sendLog, repairs>>

NextCodec ==
    \/ CodecParse
    \/ \E y \in CodecRepairOutcomes : CodecRepair(y)
    \/ \E ok \in BOOLEAN : CodecSend(ok)
    \/ CodecPace

SpecCodec == InitCodec /\ [][NextCodec]_allVars

(***************************************************************************)
(* MemoryManager.update_memory applied to one session's chunk list, and    *)
(* lines 195-204 of handle_im_message applied to a configured value.       *)
(***************************************************************************)
MaxUpdates == 3           \* update_memory calls followed
MaxConfigured == 3        \* largest configured number tried
DefaultMaxToolLoop == 2   \* line 200

\* values the configuration may hold under bot_config.agent.max_tool_loop;
\* None is what get_config gives for an absent key.  A str is described by
\* whether it is an integer literal and, if so, which.
IntValue(n) == [type |-> "int", v |-> n]
FloatValue(n, half) == [type |-> "float", v |-> n, half |-> half]
StrValue(n) == [type |-> "str", literal |-> TRUE, v |-> n]
StrOther == [type |-> "str", literal |-> FALSE, v |-> 0]
ListValue == [type |-> "list"]
ConfigValues ==
    {None, StrOther, ListValue, IntValue(-1)}
        \cup {IntValue(n) : n \in 0..MaxConfigured}
        \cup {StrValue(n) : n \in 0..MaxConfigured}
        \cup {FloatValue(n, h) : n \in {DefaultMaxToolLoop, MaxConfigured}, h \in BOOLEAN}

\* what an expression gives: a value, or the exception it raises
Returns(n) == [raised |-> "", v |-> n]
TypeError == [raised |-> "TypeError", v |-> 0]
ValueError == [raised |-> "ValueError", v |-> 0]

\* Python's int(v)
int(v) ==
    IF v.type = "int" THEN Returns(v.v)
    ELSE IF v.type = "float" THEN Returns(v.v)
    ELSE IF v.type = "str" THEN (IF v.literal THEN Returns(v.v) ELSE ValueError)
    ELSE TypeError

\* lines 196-200: max_tool_loop after the try block, or the exception that
\* leaves it
ReadMaxToolLoop(v) ==
    LET r == int(v)
    IN  IF r = ValueError THEN Returns(DefaultMaxToolLoop) ELSE r

\* the chunk lists a session may start with, the chunks named 1, 2, ...
InitialMemories == {[j \in 1..k |-> j] : k \in 0..MaxMemoryLength}

InitUnits ==
    /\ InitPipeline
    /\ IdleCodec
    /\ IdleTools
    /\ IdleRetry
    /\ session_memory \in InitialMemories
    /\ memoryBefore = <<>>
    /\ last_chunk = 0
    /\ updates = 0
    /\ max_tool_loop \in ConfigValues
    /\ tpc = "config"
    /\ max_agent_steps = 0
    /\ steps = 0

\* update_memory is called with a chunk not seen before
UpdateMemory ==
    /\ updates < MaxUpdates
    /\ LET chunk_id == IF last_chunk = 0 THEN Len(session_memory) + 1
                       ELSE last_chunk + 1
       IN  /\ session_memory' = update_memory(session_memory, chunk_id)
           /\ last_chunk' = chunk_id
    /\ memoryBefore' = session_memory
    /\ updates' = updates + 1
    /\ UNCHANGED <<vars, codecVars, toolVars, retryVars, max_tool_loop, tpc, max_agent_steps, steps>>

\* lines 196-202
ReadConfig ==
    /\ tpc = "config"
    /\ LET r == ReadMaxToolLoop(max_tool_loop)
       IN  IF r = TypeError
           THEN tpc' = "failed" /\ UNCHANGED max_agent_steps
           ELSE tpc' = "loop" /\ max_agent_steps' = r.v + 1
    /\ UNCHANGED <<vars, codecVars, toolVars, retryVars, session_memory, memoryBefore, last_chunk, updates,
                   max_tool_loop, steps>>

\* one pass of `for _ in range(max_agent_steps)`: the response asks for tools
\* and the loop goes on, or it is final and the loop is left
LoopStep(final) ==
    /\ tpc = "loop"
    /\ steps < max_agent_steps
    /\ steps' = steps + 1
    /\ tpc' = IF final THEN "done" ELSE "loop"
    /\ UNCHANGED <<vars, codecVars, toolVars, retryVars, session_memory, memoryBefore, last_chunk, updates,
                   max_tool_loop, max_agent_steps>>

\* the range is used up
LoopEnd ==
    /\ tpc = "loop"
    /\ steps >= max_agent_steps
    /\ tpc' = "done"
    /\ UNCHANGED <<vars, codecVars, toolVars, retryVars, session_memory, memoryBefore, last_chunk, updates,
                   max_tool_loop, max_agent_steps, steps>>

NextUnits ==
    \/ UpdateMemory
    \/ ReadConfig
    \/ \E final \in BOOLEAN : LoopStep(final)
    \/ LoopEnd

SpecUnits == InitUnits /\ [][NextUnits]_allVars

(***************************************************************************)
(* The tool calls of one response in OpenAIProvider.chat (lines 54-86).    *)
(***************************************************************************)
MaxToolCalls == 2    \* tool calls of the response

\* a tool call: whether its arguments are JSON, whether its name is in
\* request.tool_funcs, and whether the function raises when awaited
ToolCalls == [arguments_json : BOOLEAN, registered : BOOLEAN, raises : BOOLEAN]

ToolCallLists == UNION {[1..n -> ToolCalls] : n \in 1..MaxToolCalls}

\* lines 79-84: the tool-role message of call k
ToolMessage(k, content) == [role |-> "tool", tool_call_id |-> k, content |-> content]

InitTools ==
    /\ InitPipeline
    /\ IdleCodec
    /\ IdleUnits
    /\ IdleRetry
    /\ tool_calls \in ToolCallLists
    /\ tool_index = 0
    /\ tool_messages = <<>>
    /\ tool_results = <<>>
    /\ xpc = "loop"

\* lines 54-77: the head of one pass of `for tool_call in message.tool_calls`
ToolCallBegins ==
    /\ xpc = "loop"
    /\ tool_index < Len(tool_calls)
    /\ LET tool_call == tool_calls[tool_index + 1]
       IN  IF ~tool_call.arguments_json
           THEN xpc' = "raised" /\ UNCHANGED <<tool_index, tool_messages>>
           ELSE IF tool_call.registered
           THEN xpc' = "await" /\ UNCHANGED <<tool_index, tool_messages>>
           ELSE /\ tool_messages' = Append(tool_messages, ToolMessage(tool_index + 1, "error"))
                /\ tool_index' = tool_index + 1
                /\ UNCHANGED xpc
    /\ UNCHANGED <<vars, codecVars, unitVars, retryVars, tool_calls, tool_results>>

\* lines 71-84: the awaited tool function ends, by a result or by an exception
\* that no handler of lines 95-101 catches
ToolFunctionEnds ==
    /\ xpc = "await"
    /\ IF tool_calls[tool_index + 1].raises
       THEN xpc' = "raised" /\ UNCHANGED <<tool_index, tool_messages>>
       ELSE /\ tool_messages' = Append(tool_messages, ToolMessage(tool_index + 1, "result"))
            /\ tool_index' = tool_index + 1
            /\ xpc' = "loop"
    /\ UNCHANGED <<vars, codecVars, unitVars, retryVars, tool_calls, tool_results>>

\* line 86: the loop is over
ToolLoopEnds ==
    /\ xpc = "loop"
    /\ tool_index = Len(tool_calls)
    /\ tool_results' = <<[role |-> "assistant", tool_call_id |-> 0, content |-> ""]>>
                            \o tool_messages
    /\ xpc' = "returned"
    /\ UNCHANGED <<vars, codecVars, unitVars, retryVars, tool_calls, tool_index, tool_messages>>

NextTools ==
    \/ ToolCallBegins
    \/ ToolFunctionEnds
    \/ ToolLoopEnds

SpecTools == InitTools /\ [][NextTools]_allVars

(***************************************************************************)
(* TelegramAdapter.send_group_message and send_direct_message over         *)
(* MessageSender.send_with_retry, for several calls at a time.             *)
(***************************************************************************)
InitRetry ==
    /\ InitPipeline
    /\ IdleCodec
    /\ IdleUnits
    /\ IdleTools
    /\ app \in BOOLEAN
    /\ sender_semaphore = MaxConcurrent
    /\ spc = [s \in Senders |-> "idle"]
    /\ attempt = [s \in Senders |-> 0]
    /\ send_calls = [s \in Senders |-> 0]
    /\ escaped = [s \in Senders |-> FALSE]
    /\ send_result = [s \in Senders |-> SendGave("")]

\* a test that would send every failed attempt to the sleep
RetryUnconditional(n, max_retries) == TRUE

\* `if attempt < self.max_retries`
RetryAllowed(n, max_retries) == n < max_retries

\* the try block of send_group_message around what send_with_retry gave
Swallow(outcome) == IF outcome.raised THEN SendGave("") ELSE outcome

\* send_with_retry has the semaphore: the first pass of the loop calls send_func
FirstAttempt(s) ==
    /\ sender_semaphore' = sender_semaphore - 1
    /\ spc' = [spc EXCEPT ![s] = "try"]
    /\ attempt' = [attempt EXCEPT ![s] = 0]
    /\ send_calls' = [send_calls EXCEPT ![s] = @ + 1]
    /\ UNCHANGED <<escaped, send_result>>

\* send_with_retry is left, by a value or by an exception, and with it
\* send_group_message
LeaveSender(s, outcome) ==
    /\ sender_semaphore' = sender_semaphore + 1
    /\ spc' = [spc EXCEPT ![s] = "returned"]
    /\ escaped' = [escaped EXCEPT ![s] = outcome.raised]
    /\ send_result' = [send_result EXCEPT ![s] = Swallow(outcome)]

\* send_group_message is called
SendMessage(s) ==
    /\ spc[s] = "idle"
    /\ IF ~app
       THEN /\ spc' = [spc EXCEPT ![s] = "returned"]
            /\ UNCHANGED <<sender_semaphore, attempt, send_calls, escaped, send_result>>
       ELSE IF sender_semaphore > 0
       THEN FirstAttempt(s)
       ELSE /\ spc' = [spc EXCEPT ![s] = "sem"]
            /\ UNCHANGED <<sender_semaphore, attempt, send_calls, escaped, send_result>>
    /\ UNCHANGED <<vars, codecVars, unitVars, toolVars, app>>

\* a call waiting for the sender semaphore gets it
SenderAdmitted(s) ==
    /\ spc[s] = "sem"
    /\ sender_semaphore > 0
    /\ FirstAttempt(s)
    /\ UNCHANGED <<vars, codecVars, unitVars, toolVars, app>>

\* asyncio.wait_for(send_func(...)) ends: with a message id, or with an
\* exception (a transport error, or the timeout)
AttemptEnds(s, ok) ==
    /\ spc[s] = "try"
    /\ IF ok
       THEN LeaveSender(s, SendGave("id")) /\ UNCHANGED <<attempt, send_calls>>
       ELSE IF RetryAllowed(attempt[s], MaxRetries)
       THEN /\ spc' = [spc EXCEPT ![s] = "backoff"]
            /\ UNCHANGED <<sender_semaphore, attempt, send_calls, escaped, send_result>>
       ELSE LeaveSender(s, SendRaised) /\ UNCHANGED <<attempt, send_calls>>
    /\ UNCHANGED <<vars, codecVars, unitVars, toolVars, app>>

\* the sleep before the next attempt is over: `continue`, the next pass of
\* `for attempt in range(self.max_retries + 1)`, or the end of the range
BackoffOver(s) ==
    /\ spc[s] = "backoff"
    /\ IF attempt[s] + 1 < MaxRetries + 1
       THEN /\ attempt' = [attempt EXCEPT ![s] = @ + 1]
            /\ send_calls' = [send_calls EXCEPT ![s] = @ + 1]
            /\ spc' = [spc EXCEPT ![s] = "try"]
            /\ UNCHANGED <<sender_semaphore, escaped, send_result>>
       ELSE LeaveSender(s, SendGave("")) /\ UNCHANGED <<attempt, send_calls>>
    /\ UNCHANGED <<vars, codecVars, unitVars, toolVars, app>>

NextRetry ==
    \/ \E s \in Senders : SendMessage(s)
    \/ \E s \in Senders : SenderAdmitted(s)
    \/ \E s \in Senders, ok \in BOOLEAN : AttemptEnds(s, ok)
    \/ \E s \in Senders : BackoffOver(s)

SpecRetry == InitRetry /\ [][NextRetry]_allVars

(***************************************************************************)
(* Properties.                                                             *)
(***************************************************************************)
Published == {i \in Inv : sess[i] # NoSession}
Of(sid) == {i \in Published : sess[i] = sid}

\* the task is in its agent loop: a model call, a dispatch or a tool execution
InAgentRun(i) == pc[i] \in {"llm", "lock", "repair", "send", "pace", "tool"}
\* the task is inside `async with session_lock`
InSessionLock(i) == pc[i] \in {"repair", "send", "pace"}
\* the task holds an admission permit
HoldsPermit(i) == pc[i] \in {"sleep", "llm", "lock", "repair", "send", "pace", "tool"}

RECURSIVE Concat(_)
Concat(batches) ==
    IF batches = <<>> THEN <<>> ELSE Head(batches).batch \o Concat(Tail(batches))

Sleeping(sid) == {i \in Of(sid) : pc[i] = "sleep"}
ToolSteps(i) == Cardinality({k \in 1..Len(chunk[i]) : chunk[i][k].role = "tool"})

\* C1 as claimed: at most one agent run (model calls, dispatch, tool executions)
\* of a session key is in flight at any time.
C1_OneAgentRunPerSession ==
    \A sid \in Sessions : Cardinality({i \in Of(sid) : InAgentRun(i)}) <= 1

\* C1 as amended: at most one task of a session key is inside the session lock
\* (send_xml_messages and _add_message_ids) at any time, and it is the task the
\* lock records; the model calls of agent runs of one session key may overlap.
C1_OneTaskInSessionLock ==
    /\ \A sid \in Sessions : Cardinality({i \in Of(sid) : InSessionLock(i)}) <= 1
    /\ \A i \in Published :
         InSessionLock(i) => session_locks[get_session_lock(sess[i])] = i

\* two tasks of one session in their agent runs, one sending, the other kept
\* waiting by the session lock
C1_Witness ==
    \E i, j \in Published :
        i # j /\ sess[i] = sess[j] /\ pc[i] = "send" /\ pc[j] = "lock"

\* C2 as claimed: a burst of k events of one session, each less than
\* max_message_interval after the one before, is flushed once, as one batch
\* holding all k events in arrival order, for every k >= 1.
C2_BurstFlushedOnce ==
    \A sid \in Sessions :
        (burst[sid] /\ enq[sid] # <<>>) =>
            /\ Len(flushed[sid]) <= 1
            /\ Sleeping(sid) = {} => Concat(flushed[sid]) = enq[sid] /\ Len(flushed[sid]) = 1

\* C2 as amended: the same for every k with 1 <= k <= max_buffer_messages.
C2_BurstUpToCapFlushedOnce ==
    \A sid \in Sessions :
        (burst[sid] /\ enq[sid] # <<>> /\ Len(enq[sid]) <= MaxBufferMessages) =>
            /\ Len(flushed[sid]) <= 1
            /\ Sleeping(sid) = {} => Concat(flushed[sid]) = enq[sid] /\ Len(flushed[sid]) = 1

\* a burst of two events below the cap flushed as one batch by the task of the
\* second event, the task of the first having given up
C2_Witness ==
    \E sid \in Sessions :
        /\ burst[sid] /\ Len(enq[sid]) = 2 /\ 2 < MaxBufferMessages
        /\ Len(flushed[sid]) = 1 /\ flushed[sid][1].batch = enq[sid]
        /\ flushed[sid][1].by = enq[sid][2]
        /\ pc[enq[sid][1]] = "aborted"

\* C3: for every session key, the batches flushed so far, in flush order,
\* followed by the buffer, are the events appended so far, in arrival order.
C3_BatchesAndBufferAreTheEvents ==
    \A sid \in Sessions : Concat(flushed[sid]) \o message_buffer[sid] = enq[sid]

\* two batches flushed and a further event pending
C3_Witness ==
    \E sid \in Sessions : Len(flushed[sid]) >= 2 /\ message_buffer[sid] # <<>>

\* C4: from the first adapter send of a reply batch until the batch is done,
\* the latest adapter send to the session is one of that batch: no send of
\* another batch of the session comes in between.
C4_SendsOfABatchNotInterleaved ==
    \A i \in Published :
        (pc[i] \in {"send", "pace"} /\ sent[i] > 0) => lastSend[sess[i]] = i

\* a task between the two sends of its batch while another task of the session
\* waits to send
C4_Witness ==
    \E i, j \in Published :
        /\ i # j /\ sess[i] = sess[j]
        /\ pc[i] = "send" /\ sent[i] = 1 /\ todo[i] = 1
        /\ pc[j] = "lock"

\* C5 as claimed: when a turn of a session makes its first model call, every
\* turn of the session flushed before it has completed its sends and its
\* memory append.
C5_TurnsOfASessionSerialized ==
    \A sid \in Sessions :
        \A k \in 1..Len(flushed[sid]) :
            k < Len(flushed[sid]) => pc[flushed[sid][k].by] = "done"

\* C5 as amended: a turn appends its memory chunk only after its own sends
\* have completed and it has released the session lock; a later turn of the
\* session may call the model, send and append before that.
C5_AppendAfterOwnSends ==
    \A i \in Published :
        appended[i] > 0 =>
            /\ pc[i] = "done"
            /\ todo[i] = 0
            /\ session_locks[get_session_lock(sess[i])] # i

\* the later of two turns of a session has sent and appended, the earlier has not
C5_Witness ==
    \E sid \in Sessions :
        /\ Len(flushed[sid]) = 2
        /\ appended[flushed[sid][2].by] = 1 /\ sent[flushed[sid][2].by] > 0
        /\ appended[flushed[sid][1].by] = 0 /\ InAgentRun(flushed[sid][1].by)

\* C6 as claimed: an event is never kept from its session's buffer by the
\* work in flight for other session keys.
C6_NeverDelayedByOtherSessions ==
    \A i \in Published :
        (pc[i] = "sem" /\ \A j \in Published : HoldsPermit(j) => sess[j] # sess[i])
            => permits > 0

\* C6 as amended: an event waits for admission only while 3 tasks, of any
\* sessions, hold the permits; once appended, its session's buffer is flushed
\* within one max_message_interval of the session's last append, whatever the
\* other sessions do.
C6_DelayedOnlyByAdmission ==
    /\ \A i \in Published :
         (pc[i] = "sem" /\ permits = 0) =>
             Cardinality({j \in Published : HoldsPermit(j)}) = Permits
    /\ \A sid \in Sessions :
         sinceLast[sid] > MaxMessageInterval => message_buffer[sid] = <<>>

\* an event of one session waits for admission while tasks of the other
\* session hold all the permits
C6_Witness ==
    \E i \in Published :
        /\ pc[i] = "sem" /\ permits = 0
        /\ \A j \in Published : HoldsPermit(j) => sess[j] # sess[i]

\* C7: a turn makes at most max_tool_loop + 1 agent_run calls; when every
\* response asked for tools it has made exactly max_tool_loop + 1 calls when
\* it ends.
C7_AtMostMaxToolLoopPlusOneCalls ==
    \A i \in Published :
        /\ calls[i] <= MaxToolLoop + 1
        /\ (pc[i] = "done" /\ ToolSteps(i) = calls[i]) => calls[i] = MaxToolLoop + 1

\* a turn ended after three responses that all asked for tools
C7_Witness ==
    \E i \in Published : pc[i] = "done" /\ calls[i] = 3 /\ ToolSteps(i) = 3

\* C8: a turn that reached the agent loop has, once it ended in whatever way,
\* appended exactly one chunk, which begins with the user message of its batch.
C8_OneChunkPerTurn ==
    \A i \in Published :
        (pc[i] \in {"done", "failed"} /\ calls[i] > 0) =>
            /\ appended[i] = 1
            /\ chunk[i][1].role = "user"

\* the log entry of the adapter send that carried the elements of a <msg>
SendsOf(message) == {k \in 1..Len(sendLog) : sendLog[k].message = message}

\* C9: once a reply is dispatched and annotated, every <msg> of the effective
\* XML that was sent carries the id the adapter returned for the send of that
\* element, and a <msg> left out of the batch as empty carries no id of a send.
C9_IdsStayWithTheirMsg ==
    (cpc = "done" /\ ParseOk(actual_xml)) =>
        \A k \in 1..Len(response_with_ids.msgs) :
            LET message == Elements(actual_xml.msgs[k].children)
                message_id == response_with_ids.msgs[k].message_id
            IN  IF message # <<>>
                THEN \E n \in SendsOf(message) : message_id = <<sendLog[n].id>>
                ELSE message_id \in {<<>>, <<"">>}

C11_RepairedBatchNotEmpty ==
    (cpc \in {"send", "pace", "done"} /\ ~ParseOk(xml_data)) =>
        Len(resp_list) >= 1

\* C12: on every return path of parse the effective XML is the text the batch
\* was derived from: the input on the primary path, the corrected text after a
\* repair (never the input), and the text held by the one Text element on the
\* fallback path.
C12_EffectiveXmlIsTheTextOfTheBatch ==
    cpc \in {"send", "pace", "done"} =>
        IF ParseOk(xml_data)
        THEN actual_xml = xml_data /\ resp_list = ParseXmlMsg(actual_xml)
        ELSE IF fixed # ChatFailed /\ ParseOk(fixed)
        THEN actual_xml = fixed /\ resp_list = ParseXmlMsg(actual_xml)
        ELSE resp_list = <<<<[type |-> "Text", v |-> actual_xml]>>>>

\* a repair gave a text of two messages, which were sent and annotated
C12_Witness ==
    /\ cpc = "done"
    /\ ~ParseOk(xml_data)
    /\ fixed # ChatFailed /\ ParseOk(fixed) /\ actual_xml = fixed
    /\ Len(resp_list) = 2 /\ Len(sendLog) = 2
    /\ resp_list = ParseXmlMsg(fixed)

\* C13 as claimed: send_xml_messages never raises: no task ends by an
\* exception out of its sends, and a task that ends has no message of its
\* batch left unsent.
C13_SendNeverRaises ==
    \A i \in Published :
        /\ pc[i] # "failed"
        /\ pc[i] = "done" => todo[i] = 0

\* C14 as claimed: a batch of m >= 1 messages is sent with exactly m - 1
\* pacing delays.
C14_OneDelayLessThanSends ==
    (cpc = "done" /\ Len(sendLog) >= 1) => delays = Len(sendLog) - 1

Ended(i) == pc[i] \in {"done", "failed", "aborted"}

C16_AtMostThreeInFlight ==
    /\ Cardinality({i \in Published : HoldsPermit(i)}) <= Permits
    /\ permits >= 0
    /\ \A i \in Published : pc[i] \in {"new", "queued", "sem"} => ~HoldsPermit(i)

\* three invocations in flight, one of them in its debounce sleep, and a
\* fourth event waiting for a permit
C16_Witness ==
    /\ Cardinality({i \in Published : HoldsPermit(i)}) = Permits
    /\ \E i \in Published : pc[i] = "sleep"
    /\ \E i \in Published : pc[i] = "sem"

\* C17: update_memory on a list of exactly max_memory_length chunks removes
\* the oldest chunk, keeps the others in order and puts the new chunk last;
\* on a shorter list it only appends; and a list that started with at most
\* max_memory_length chunks never holds more.
C17_OldestChunkEvicted ==
    /\ Len(session_memory) <= MaxMemoryLength
    /\ updates > 0 =>
         IF Len(memoryBefore) = MaxMemoryLength
         THEN session_memory = Tail(memoryBefore) \o <<last_chunk>>
         ELSE session_memory = Append(memoryBefore, last_chunk)

\* a full list has lost its oldest chunk to a new one
C17_Witness ==
    /\ updates > 0
    /\ Len(memoryBefore) = MaxMemoryLength /\ MaxMemoryLength > 1
    /\ Len(session_memory) = MaxMemoryLength
    /\ session_memory[1] = memoryBefore[2]
    /\ session_memory[Len(session_memory)] = last_chunk
    /\ \A k \in 1..Len(session_memory) : session_memory[k] # memoryBefore[1]

NotAnInteger(v) == v.type # "int" /\ ~(v.type = "str" /\ v.literal)

\* C18 as claimed: no configured value makes the turn fail before the loop;
\* an absent or non-integer value is taken as 2 and gives 3 loop steps; and
\* the loop never makes more steps than max_tool_loop + 1.
C18_MaxToolLoopDefaultsToTwo ==
    /\ tpc # "failed"
    /\ tpc \in {"loop", "done"} =>
         /\ steps <= max_agent_steps
         /\ NotAnInteger(max_tool_loop) => max_agent_steps = DefaultMaxToolLoop + 1

\* C19: _add_message_ids does not raise, and a text that does not parse
\* under a root, as after the fallback, comes back unchanged whatever the ids.
C19_UnparseableTextComesBackUnchanged ==
    cpc = "done" =>
        /\ response_with_ids # Raised
        /\ ~ParseOk(actual_xml) => response_with_ids = actual_xml

\* the fallback text was sent, its send gave an id, and the text was annotated
C19_Witness ==
    /\ cpc = "done"
    /\ ~ParseOk(actual_xml)
    /\ message_ids = <<"id1">>
    /\ response_with_ids = actual_xml

\* C20: for a text handled on the primary or the repaired path, what
\* _add_message_ids returns is well-formed under a root and has the same <msg>
\* elements with the same children in the same order; only message_id
\* attributes differ.
C20_AnnotatedTextKeepsTheMessages ==
    (cpc = "done" /\ ParseOk(actual_xml)) =>
        /\ ParseOk(response_with_ids)
        /\ Len(response_with_ids.msgs) = Len(actual_xml.msgs)
        /\ \A k \in 1..Len(actual_xml.msgs) :
             response_with_ids.msgs[k].children = actual_xml.msgs[k].children

\* a repaired text of two messages annotated with the two ids of its sends
C20_Witness ==
    /\ cpc = "done"
    /\ ~ParseOk(xml_data) /\ ParseOk(actual_xml)
    /\ Len(actual_xml.msgs) = 2 /\ Len(message_ids) = 2
    /\ response_with_ids.msgs[1].message_id = <<"id1">>
    /\ response_with_ids.msgs[2].message_id = <<"id2">>
    /\ response_with_ids.msgs[2].children = actual_xml.msgs[2].children

\* C21: whenever an invocation flushes, the batch it takes is the events that
\* were in the buffer when its own event was enqueued: as many as it counted
\* then, its own event last, none of them appended while it waited.
C21_BatchIsTheBufferAtEnqueue ==
    \A sid \in Sessions : \A k \in 1..Len(flushed[sid]) :
        LET f == flushed[sid][k]
        IN  /\ Len(f.batch) = msg_amount[f.by]
            /\ f.batch[Len(f.batch)] = f.by

\* C22 as claimed: the length comparison of a flush is made, like its
\* slice-and-clear, by an invocation that holds the buffer lock of the session.
C22_ComparedUnderTheBufferLock ==
    \A sid \in Sessions : \A k \in 1..Len(flushed[sid]) :
        /\ flushed[sid][k].compared_under = flushed[sid][k].by
        /\ flushed[sid][k].sliced_under = flushed[sid][k].by

\* C22 as amended: the slice-and-clear is made under the buffer lock and the
\* comparison before the lock is taken, by an invocation that holds nothing;
\* no invocation holds a buffer lock while it is suspended, so the lock is free
\* when it is asked for and the slice takes the very buffer that was compared:
\* all of it.
C22_ComparedThenSlicedInOneStep ==
    /\ \A sid \in Sessions : buffer_locks[sid] = 0
    /\ \A sid \in Sessions : \A k \in 1..Len(flushed[sid]) :
        /\ flushed[sid][k].compared_under = 0
        /\ flushed[sid][k].sliced_under = flushed[sid][k].by
        /\ Len(flushed[sid][k].batch) = msg_amount[flushed[sid][k].by]
        /\ flushed[sid][k].left = 0

\* a task flushes after its sleep while a later task of the session, admitted
\* after an earlier flush, is still asleep
C22_Witness ==
    \E sid \in Sessions : \E i, j \in Inv :
        /\ Len(flushed[sid]) = 2 /\ flushed[sid][2].by = i
        /\ msg_amount[i] < MaxBufferMessages
        /\ sess[j] = sid /\ pc[j] = "sleep"

Holds(list, e) == \E k \in 1..Len(list) : list[k] = e

Before(list, a, b) ==
    \E k, l \in 1..Len(list) : k < l /\ list[k] = a /\ list[l] = b

\* C23: an event left in the buffer by an invocation that gave up leaves the
\* buffer only in a batch flushed by an invocation that was enqueued later; a
\* non-empty buffer always has the invocation of its newest event waiting; and,
\* the calls returning, a non-empty buffer becomes empty.
C23_LeftEventsFlushedLater ==
    /\ [](\A sid \in Sessions :
            message_buffer[sid] # <<>> =>
                pc[message_buffer[sid][Len(message_buffer[sid])]] = "sleep")
    /\ [][\A sid \in Sessions : \A a \in Inv :
            (/\ pc[a] = "aborted"
             /\ Holds(message_buffer[sid], a)
             /\ ~Holds(message_buffer'[sid], a)) =>
                /\ Len(flushed'[sid]) = Len(flushed[sid]) + 1
                /\ Holds(flushed'[sid][Len(flushed'[sid])].batch, a)
                /\ Before(enq'[sid], a, flushed'[sid][Len(flushed'[sid])].by)]_allVars
    /\ \A sid \in Sessions :
            (message_buffer[sid] # <<>>) ~> (message_buffer[sid] = <<>>)

\* the event of an invocation that gave up is in a batch flushed by another
C23_Witness ==
    \E sid \in Sessions : \E a \in Inv : \E k \in 1..Len(flushed[sid]) :
        /\ pc[a] = "aborted" /\ msg_amount[a] < Len(flushed[sid][k].batch)
        /\ Holds(flushed[sid][k].batch, a)
        /\ flushed[sid][k].by # a

\* C24: an invocation whose enqueue brings the buffer length n to
\* max_buffer_messages or more never sleeps and never gives up: in the step of
\* its enqueue it flushes a batch of all n buffered events, its own the last.
C24_FlushAtTheCapWithoutWaiting ==
    /\ \A i \in Inv :
        msg_amount[i] >= MaxBufferMessages =>
            /\ pc[i] \notin {"sleep", "aborted"}
            /\ \E k \in 1..Len(flushed[sess[i]]) :
                LET f == flushed[sess[i]][k]
                IN  /\ f.by = i
                    /\ Len(f.batch) = msg_amount[i] /\ f.left = 0
                    /\ f.batch[Len(f.batch)] = i
                    /\ \A e \in 1..Len(f.batch) : f.batch[e] = enq[sess[i]][Len(Concat(SubSeq(flushed[sess[i]], 1, k - 1))) + e]

\* the third event of a session, met by two sleeping invocations, has flushed
\* all three
C24_Witness ==
    \E i \in Inv :
        /\ msg_amount[i] = MaxBufferMessages
        /\ Len(flushed[sess[i]]) = 1 /\ flushed[sess[i]][1].by = i
        /\ flushed[sess[i]][1].batch = enq[sess[i]]
        /\ Cardinality(Sleeping(sess[i])) = MaxBufferMessages - 1

\* C25: while the tools of a loop step execute, no adapter send of the text of
\* that step is still to be made and the invocation does not hold the session
\* lock: the sends were completed and the lock released before the first tool.
C25_TextSentBeforeTheTools ==
    \A i \in Inv :
        pc[i] = "tool" =>
            /\ todo[i] = 0
            /\ reply[i] = EmptyText
            /\ session_locks[get_session_lock(sess[i])] # i

\* the tools of the first step execute after the two sends of its text
C25_Witness ==
    \E i \in Inv :
        /\ pc[i] = "tool" /\ calls[i] = 1 /\ sent[i] = 2
        /\ session_locks[get_session_lock(sess[i])] = 0

\* C26: when the arguments of the tool calls of a response are well formed, no
\* exception leaves the tool loop, and when it is over there is one tool-role
\* message for each tool call, in order, with an error content for a call
\* whose name is not registered or whose function raised.
C26_OneToolMessagePerCall ==
    (\A k \in 1..Len(tool_calls) : tool_calls[k].arguments_json) =>
        /\ xpc # "raised"
        /\ xpc = "returned" =>
            /\ Len(tool_messages) = Len(tool_calls)
            /\ \A k \in 1..Len(tool_calls) :
                /\ tool_messages[k].tool_call_id = k
                /\ (~tool_calls[k].registered \/ tool_calls[k].raises) =>
                        tool_messages[k].content = "error"

\* C30: send_with_retry calls the send function at most max_retries + 1
\* times; a call that gave an id followed only failed attempts and was the
\* last; an exception leaves send_with_retry exactly when all max_retries + 1
\* attempts failed; and send_group_message gives None then, never an exception.
C30_RetriesThenNone ==
    \A s \in Senders :
        /\ send_calls[s] <= MaxRetries + 1
        /\ spc[s] \in {"try", "backoff"} => send_calls[s] = attempt[s] + 1
        /\ ~send_result[s].raised
        /\ spc[s] = "returned" =>
            /\ send_result[s].v = "id" => ~escaped[s] /\ send_calls[s] = attempt[s] + 1
            /\ escaped[s] => send_calls[s] = MaxRetries + 1 /\ send_result[s].v = ""
            /\ (app /\ send_result[s].v = "") => escaped[s]

\* one call has given None after four failed attempts, another an id at its
\* third attempt
C30_Witness ==
    \E s, t \in Senders :
        /\ spc[s] = "returned" /\ escaped[s] /\ send_calls[s] = MaxRetries + 1
        /\ send_result[s] = SendGave("")
        /\ spc[t] = "returned" /\ send_result[t] = SendGave("id") /\ send_calls[t] = 3

\* C27: whenever a model call of the loop is out, its return without a
\* response ends the turn in that step: one assistant message with empty
\* content is appended to the chunk, the chunk is committed once, the permit
\* goes back, and no model call, no tool, no lock and no send comes with it.
C27_NoResponseEndsTheTurn ==
    \A i \in Inv :
        pc[i] = "llm" =>
            LET st == OnResponse(State, i, NoResponse)
            IN  /\ st.pc = [pc EXCEPT ![i] = "done"]
                /\ st.chunk = [chunk EXCEPT ![i] = Append(@, Assistant)]
                /\ st.chat_memory = [chat_memory EXCEPT ![sess[i]] = update_memory(@, i)]
                /\ st.appended = [appended EXCEPT ![i] = 1]
                /\ st.permits = permits + 1
                /\ st.calls = calls /\ st.todo = todo /\ st.sent = sent
                /\ st.lastSend = lastSend /\ st.session_locks = session_locks

\* a turn has ended at its second model call, made after the sends and the
\* tools of the first: its chunk ends with the empty assistant message
C27_Witness ==
    \E i \in Inv :
        /\ pc[i] = "done" /\ calls[i] = 2 /\ calls[i] < MaxAgentSteps
        /\ ToolSteps(i) = 1 /\ sent[i] > 0 /\ appended[i] = 1
        /\ Len(chunk[i]) = 4 /\ chunk[i][4] = Assistant

\* C28: one send_xml_messages call makes at most one corrective call, on the
\* text it was given and never on what a correction gave; it makes none when
\* the primary parse succeeds, and one when it fails.
C28_AtMostOneCorrectiveCall ==
    /\ Len(repairs) <= 1
    /\ \A k \in 1..Len(repairs) : repairs[k] = xml_data
    /\ xml_data.wf => repairs = <<>> /\ fixed = NotAsked
    /\ (~xml_data.wf /\ cpc # "start") => Len(repairs) = 1
    /\ (fixed # NotAsked /\ fixed # ChatFailed /\ ~fixed.wf) =>
            /\ cpc \in {"send", "pace", "done"}
            /\ resp_list = <<<<[type |-> "Text", v |-> fixed]>>>>

\* the correction of a text did not parse either and is sent as plain text,
\* after the one corrective call
C28_Witness ==
    /\ cpc = "done" /\ ~xml_data.wf
    /\ fixed # NotAsked /\ fixed # ChatFailed /\ ~fixed.wf
    /\ repairs = <<xml_data>> /\ Len(sendLog) = 1

Started(i) == pc[i] \notin {"new", "queued"} /\ ~Ended(i)

====
